---- MODULE Spec2Model ----
(***************************************************************************)
(* The students/scores homework program: src/homework/main.py and          *)
(* src/homework/clear_tables.py, run against one PostgreSQL database.      *)
(*                                                                         *)
(* The database (tables, students, scores, seq) outlives the runs.  A run  *)
(* is one execution of main() or of clear_tables(); main() is followed     *)
(* statement by statement through pc, one action per operation it calls.   *)
(* The literal arguments main() passes (update_group(5, 10), ...) and the  *)
(* values faker draws are inputs, taken from the small sets below.         *)
(***************************************************************************)
EXTENDS Integers, Sequences, FiniteSets, Bags, TLC

\* Largest value the students.id sequence hands out in the model.
MaxId == 2
\* Largest students_number passed to insert_students.
MaxN == 2
\* Rows the scores table may hold in the model.
MaxScoreRows == MaxId + 1
ROW_LIMIT == 30

StudentIds == 1..MaxId
\* faker.random_int(1, 10), and the groups main() names.
Groups == {2, 8}
\* faker.random_int(0, 100), and the score main() names.
ScoreValues == {0, 100}
\* faker.name(): a name is a sequence of characters.
Names == {<<"T", "r">>, <<"A", "l">>}
\* faker.date_of_birth()
BirthDates == {"2000-01-01"}
\* partial_name of search_student_by_name
Partials == {<<"t">>, <<"L">>}
\* The five credentials create_connection takes, and the sets of them that
\* are None in a run: none, any one, all.
Credentials == {"db_name", "db_user", "db_password", "db_host", "db_port"}
MissingSets == {{}, Credentials} \cup {{c} : c \in Credentials}
\* (table, column) pairs handed to fetch_sorted_data.
SortArgs == {<<"scores", "score">>, <<"students", "group">>, <<"scores", "rank">>}

VARIABLES
    tables,      \* the tables that exist in the database
    students,    \* rows of students: [id, name, birth_date, group]
    scores,      \* rows of scores, a bag of [student_id, score] (the id of a
                 \* row is a generated token no statement of the program reads)
    seq,         \* next value of the students.id sequence
    pc,          \* position of the current run
    conn,        \* "none" | "open" | "closed": the run's connection
    closes,      \* connection.close() calls of the run
    issued,      \* a statement was sent to the database in this run
    usedClosed,  \* a statement was sent on a connection that was not open
    cursors,     \* cursors opened in this run and not closed
    call,        \* the operation that ran last, its arguments and outcome
    out,         \* what the last operation printed
    ret,         \* what the last operation returned
    prog         \* "none" | "main" | "clear_tables": the program of the run

vars == <<tables, students, scores, seq, pc, conn, closes, issued, usedClosed,
          cursors, call, out, ret, prog>>

----------------------------------------------------------------------------
(* Values *)

Msg(kind, name, a, b) == [kind |-> kind, name |-> name, a |-> a, b |-> b]
None == [some |-> FALSE, rows |-> {}]
Some(rows) == [some |-> TRUE, rows |-> rows]
Call(op, a, b, ok) == [op |-> op, a |-> a, b |-> b, ok |-> ok]

\* How a statement can end: it succeeds, connection.cursor() raises, or
\* cursor.execute() raises (OperationalError, ProgrammingError and
\* IntegrityError are handled alike everywhere).  A statement on a table that
\* does not exist cannot succeed.
Outcomes(needed) ==
    (IF needed \subseteq tables THEN {"ok"} ELSE {}) \cup {"cursor_error", "execute_error"}

\* execute_query runs the whole statement inside one try and one "with":
\* where the failure strikes makes no difference to it.
ScopedOutcomes(needed) == Outcomes(needed) \ {"cursor_error"}

Min(a, b) == IF a < b THEN a ELSE b

RECURSIVE SumBag(_, _)
SumBag(b, S) ==
    IF S = {} THEN 0
    ELSE LET e == CHOOSE x \in S : TRUE
         IN b[e] * e.score + SumBag(b, S \ {e})

Restrict(b, S) == [e \in S |-> b[e]]

Perms(S) ==
    {f \in [1..Cardinality(S) -> S] : \A i, j \in DOMAIN f : i # j => f[i] # f[j]}

----------------------------------------------------------------------------
(* QueryExecutor *)

\* execute_query that never re-raises, as if raise_exc were not passed on.
execute_query_Swallow(o, query_name, raise_exc, print_success) ==
    [out    |-> IF o = "ok"
                THEN (IF print_success THEN <<Msg("executed", query_name, 0, 0)>> ELSE <<>>)
                ELSE <<Msg("failed", query_name, 0, 0)>>,
     raised |-> FALSE,
     leak   |-> 0]

\* execute_query: the statement runs inside "with connection.cursor()", so
\* the cursor it opens is closed on every path.
execute_query(o, query_name, raise_exc, print_success) ==
    [out    |-> IF o = "ok"
                THEN (IF print_success THEN <<Msg("executed", query_name, 0, 0)>> ELSE <<>>)
                ELSE <<Msg("failed", query_name, 0, 0)>>,
     raised |-> o # "ok" /\ raise_exc,
     leak   |-> 0]

\* execute_query_return_cursor with a bare "raise" in its except clause.
execute_query_return_cursor_Reraise(o, query_name, raise_exc, print_success) ==
    [out    |-> IF o = "ok"
                THEN (IF print_success THEN <<Msg("executed", query_name, 0, 0)>> ELSE <<>>)
                ELSE <<Msg("failed", query_name, 0, 0)>>,
     raised |-> o # "ok",
     cursor |-> o = "ok",
     leak   |-> 0]

\* execute_query_return_cursor: cursor is the returned cursor (FALSE: None);
\* leak counts the cursor it opened, did not close and did not return.
execute_query_return_cursor(o, query_name, raise_exc, print_success) ==
    [out    |-> IF o = "ok"
                THEN (IF print_success THEN <<Msg("executed", query_name, 0, 0)>> ELSE <<>>)
                ELSE <<Msg("failed", query_name, 0, 0)>>,
     raised |-> o # "ok" /\ raise_exc,
     cursor |-> o = "ok",
     leak   |-> IF o = "execute_error" /\ ~raise_exc THEN 1 ELSE 0]

----------------------------------------------------------------------------
(* The statements, as PostgreSQL executes them on the two tables *)

\* A foreign key that lets the referenced row go and keeps the score rows.
OnDeleteCascade_Keep(sc, ids) == sc

\* scores.student_id REFERENCES students(id) ON DELETE CASCADE
OnDeleteCascade(sc, ids) == Restrict(sc, {e \in DOMAIN sc : e.student_id \notin ids})

\* INSERT INTO scores (student_id, score): the foreign key rejects a
\* student_id that is no students.id.
ForeignKeyOk(student_id) == \E s \in students : s.id = student_id

\* DELETE with the comparison turned round.
DeleteGroupRows_Others(group) == {s \in students : s.group # group}

\* DELETE FROM students WHERE "group" = %s
DeleteGroupRows(group) == {s \in students : s.group = group}

\* UPDATE students SET "group" = %s WHERE id = %s
UpdateGroupRows(student_id, new_group) ==
    {IF s.id = student_id THEN [s EXCEPT !.group = new_group] ELSE s : s \in students}

\* UPDATE scores SET score = %s WHERE student_id = %s
ScoreRowsOf(student_id) == {e \in DOMAIN scores : e.student_id = student_id}

UpdateScoreRows(student_id, new_score) ==
    LET hit == ScoreRowsOf(student_id)
        n == BagCardinality(Restrict(scores, hit))
    IN IF n = 0 THEN scores
       ELSE Restrict(scores, DOMAIN scores \ hit)
            (+) [e \in {[student_id |-> student_id, score |-> new_score]} |-> n]

\* SELECT AVG(scores.score) FROM students JOIN scores ON students.id =
\* scores.student_id WHERE students."group" = %s: one row, NULL over no rows.
GroupAverage(group) ==
    LET ids == {s.id : s \in {t \in students : t.group = group}}
        joined == {e \in DOMAIN scores : e.student_id \in ids}
        n == BagCardinality(Restrict(scores, joined))
    IN [null |-> n = 0, sum |-> SumBag(scores, joined), count |-> n]

\* f"{score:.2f}": the average in hundredths, rounded to the nearest.
Format2f(avg) == (200 * avg.sum + avg.count) \div (2 * avg.count)

\* LIMIT %s with ROW_LIMIT: any ROW_LIMIT of the rows when there are more.
Limit(rows) ==
    {T \in SUBSET rows : Cardinality(T) = Min(ROW_LIMIT, Cardinality(rows))}

\* TRUNCATE TABLE students RESTART IDENTITY CASCADE
Truncate ==
    [tables |-> tables, students |-> {}, scores |-> EmptyBag, seq |-> 1]

----------------------------------------------------------------------------
(* The operations.  Each yields the database it leaves, what it printed    *)
(* (out), what it returned (ret), whether it raised, the cursors it left   *)
(* open (leak) and whether its statement succeeded (ok).                   *)

R0 ==
    [tables |-> tables, students |-> students, scores |-> scores, seq |-> seq,
     out |-> <<>>, ret |-> None, raised |-> FALSE, leak |-> 0, ok |-> TRUE]

create_students_table(o) ==
    LET q == execute_query(o, "create students table", TRUE, TRUE)
    IN [R0 EXCEPT !.tables = IF o = "ok" THEN tables \cup {"students"} ELSE tables,
                  !.out = q.out, !.raised = q.raised, !.leak = q.leak,
                  !.ok = (o = "ok")]

create_scores_table(o) ==
    LET q == execute_query(o, "create scores table", TRUE, TRUE)
    IN [R0 EXCEPT !.tables = IF o = "ok" THEN tables \cup {"scores"} ELSE tables,
                  !.out = q.out, !.raised = q.raised, !.leak = q.leak,
                  !.ok = (o = "ok")]

\* The loop of insert_students from its i-th round on: rows[i] is what faker
\* draws in round i and os[i] how that round's INSERT ends.
RECURSIVE InsertStudentsLoop(_, _, _, _)
InsertStudentsLoop(i, rows, os, acc) ==
    IF i > Len(rows) \/ acc.raised THEN acc
    ELSE LET q == execute_query(os[i], "insert students", TRUE, FALSE)
             row == [id |-> acc.seq, name |-> rows[i][1],
                     birth_date |-> rows[i][2], group |-> rows[i][3]]
         IN InsertStudentsLoop(i + 1, rows, os,
                [acc EXCEPT !.students = IF os[i] = "ok" THEN @ \cup {row} ELSE @,
                            !.seq = IF os[i] = "ok" THEN @ + 1 ELSE @,
                            !.out = @ \o q.out,
                            !.raised = q.raised,
                            !.leak = @ + q.leak,
                            !.ok = @ /\ os[i] = "ok"])

insert_students(rows, os) ==
    LET r == InsertStudentsLoop(1, rows, os, R0)
    IN IF r.raised THEN r
       ELSE [r EXCEPT !.out = @ \o <<Msg("students filled", "", 0, 0)>>]

\* The loop of insert_scores over the fetched identifiers.
RECURSIVE InsertScoresLoop(_, _, _, _, _)
InsertScoresLoop(i, ids, values, os, acc) ==
    IF i > Len(ids) \/ acc.raised THEN acc
    ELSE LET o == IF os[i] = "ok" /\ ~ForeignKeyOk(ids[i]) THEN "execute_error" ELSE os[i]
             q == execute_query(o, "insert scores", TRUE, FALSE)
             row == [student_id |-> ids[i], score |-> values[i]]
         IN InsertScoresLoop(i + 1, ids, values, os,
                [acc EXCEPT !.scores = IF o = "ok" THEN @ (+) SetToBag({row}) ELSE @,
                            !.out = @ \o q.out,
                            !.raised = q.raised,
                            !.leak = @ + q.leak,
                            !.ok = @ /\ o = "ok"])

\* insert_scores whose loop starts at the second fetched row.
insert_scores_SkipFirst(o, ids, values, os) ==
    LET c == execute_query_return_cursor(o, "select students' identifiers", FALSE, TRUE)
        start == [R0 EXCEPT !.out = c.out, !.raised = c.raised, !.leak = c.leak,
                            !.ok = (o = "ok")]
    IN IF c.cursor /\ ~c.raised
       THEN LET r == InsertScoresLoop(2, ids, values, os, start)
            IN IF r.raised THEN r
               ELSE [r EXCEPT !.out = @ \o <<Msg("scores filled", "", 0, 0)>>]
       ELSE start

\* o: how SELECT id FROM students ends; ids: the identifiers in the order
\* fetchall() returns them.
insert_scores(o, ids, values, os) ==
    LET c == execute_query_return_cursor(o, "select students' identifiers", FALSE, TRUE)
        start == [R0 EXCEPT !.out = c.out, !.raised = c.raised, !.leak = c.leak,
                            !.ok = (o = "ok")]
    IN IF c.cursor /\ ~c.raised
       THEN LET r == InsertScoresLoop(1, ids, values, os, start)
            IN IF r.raised THEN r
               ELSE [r EXCEPT !.out = @ \o <<Msg("scores filled", "", 0, 0)>>]
       ELSE start

update_group(student_id, new_group, o) ==
    LET c == execute_query_return_cursor(o, "update student's group", FALSE, TRUE)
        changes_number == Cardinality({s \in students : s.id = student_id})
    IN IF c.cursor
       THEN [R0 EXCEPT !.students = UpdateGroupRows(student_id, new_group),
                       !.out = c.out \o
                           (IF changes_number = 0
                            THEN <<Msg("no student with id", "", student_id, 0)>>
                            ELSE <<Msg("now in group", "", student_id, new_group)>>),
                       !.leak = c.leak]
       ELSE [R0 EXCEPT !.out = c.out, !.raised = c.raised, !.leak = c.leak,
                       !.ok = FALSE]

delete_group(group, o) ==
    LET c == execute_query_return_cursor(o, "delete group", FALSE, TRUE)
        gone == DeleteGroupRows(group)
        changes_number == Cardinality(gone)
    IN IF c.cursor
       THEN [R0 EXCEPT !.students = students \ gone,
                       !.scores = OnDeleteCascade(scores, {s.id : s \in gone}),
                       !.out = c.out \o
                           (IF changes_number = 0
                            THEN <<Msg("no student from group", "", group, 0)>>
                            ELSE <<Msg("deleted", "", changes_number, group)>>),
                       !.leak = c.leak]
       ELSE [R0 EXCEPT !.out = c.out, !.raised = c.raised, !.leak = c.leak,
                       !.ok = FALSE]

\* result: the rows fetchall() returns, one of Limit(the group's rows).
fetch_group(group, o, result) ==
    LET c == execute_query_return_cursor(o, "fetch group", FALSE, TRUE)
    IN IF c.cursor
       THEN [R0 EXCEPT !.out = c.out \o
                           (IF result # {} THEN <<Msg("group fetched", "", group, 0)>>
                            ELSE <<>>),
                       !.ret = Some(result),
                       !.leak = c.leak]
       ELSE [R0 EXCEPT !.out = c.out, !.raised = c.raised, !.leak = c.leak,
                       !.ok = FALSE]

FetchGroupRows(group) ==
    {[id |-> s.id, name |-> s.name, birth_date |-> s.birth_date] :
        s \in {t \in students : t.group = group}}

\* calculate_group_average_score that tests only "result is not None".
calculate_group_average_score_RowOnly(group, o) ==
    LET c == execute_query_return_cursor(o, "calculate group's average score", FALSE, TRUE)
        result == GroupAverage(group)
    IN IF c.cursor
       THEN [R0 EXCEPT !.out = c.out \o
                           <<Msg("average", "", group,
                                 IF result.null THEN 0 ELSE Format2f(result))>>,
                       !.leak = c.leak]
       ELSE [R0 EXCEPT !.out = c.out, !.raised = c.raised, !.leak = c.leak,
                       !.ok = FALSE]

calculate_group_average_score(group, o) ==
    LET c == execute_query_return_cursor(o, "calculate group's average score", FALSE, TRUE)
        result == GroupAverage(group)
    IN IF c.cursor
       THEN [R0 EXCEPT !.out = c.out \o
                           (IF ~result.null
                            THEN <<Msg("average", "", group, Format2f(result))>>
                            ELSE <<Msg("no group", "", group, 0)>>),
                       !.leak = c.leak]
       ELSE [R0 EXCEPT !.out = c.out, !.raised = c.raised, !.leak = c.leak,
                       !.ok = FALSE]

\* The columns ORDER BY can name, per table (sql.Identifier of anything else
\* is a ProgrammingError of the statement).
Columns(table) ==
    CASE table = "students" -> {"id", "group"}
      [] table = "scores" -> {"student_id", "score"}
      [] OTHER -> {}

\* SELECT * FROM table ORDER BY column: the rows as a list, ascending in
\* column (rows that tie come in the order the database picks; one is taken).
RECURSIVE SortBag(_, _)
SortBag(b, column) ==
    IF DOMAIN b = {} THEN <<>>
    ELSE LET e == CHOOSE x \in DOMAIN b : \A y \in DOMAIN b : x[column] <= y[column]
         IN [i \in 1..b[e] |-> e] \o SortBag(Restrict(b, DOMAIN b \ {e}), column)

TableRows(table) == IF table = "students" THEN SetToBag(students) ELSE scores

fetch_sorted_data(table, column, o) ==
    LET c == execute_query_return_cursor(o, "fetch data sorted", FALSE, TRUE)
        sorted == SortBag(TableRows(table), column)
    IN IF c.cursor
       THEN [R0 EXCEPT !.out = c.out,
                       !.ret = Some(SubSeq(sorted, 1, Min(ROW_LIMIT, Len(sorted)))),
                       !.leak = c.leak]
       ELSE [R0 EXCEPT !.out = c.out, !.raised = c.raised, !.leak = c.leak,
                       !.ok = FALSE]

Lower(ch) ==
    CASE ch = "T" -> "t"
      [] ch = "A" -> "a"
      [] ch = "L" -> "l"
      [] OTHER -> ch

\* name ILIKE '%' + partial_name + '%'
ILike(name, partial_name) ==
    \E i \in 1..(Len(name) - Len(partial_name) + 1) :
        \A j \in 1..Len(partial_name) : Lower(name[i + j - 1]) = Lower(partial_name[j])

search_student_by_name(partial_name, o) ==
    LET c == execute_query_return_cursor(o, "search students by name", FALSE, TRUE)
    IN IF c.cursor
       THEN [R0 EXCEPT !.out = c.out,
                       !.ret = Some({s \in students : ILike(s.name, partial_name)}),
                       !.leak = c.leak]
       ELSE [R0 EXCEPT !.out = c.out, !.raised = c.raised, !.leak = c.leak,
                       !.ok = FALSE]

update_score(student_id, new_score, o) ==
    LET c == execute_query_return_cursor(o, "update student's score", FALSE, TRUE)
        changes_number == BagCardinality(Restrict(scores, ScoreRowsOf(student_id)))
    IN IF c.cursor
       THEN [R0 EXCEPT !.scores = UpdateScoreRows(student_id, new_score),
                       !.out = c.out \o
                           (IF changes_number = 0
                            THEN <<Msg("no student with id", "", student_id, 0)>>
                            ELSE <<Msg("now has points", "", student_id, new_score)>>),
                       !.leak = c.leak]
       ELSE [R0 EXCEPT !.out = c.out, !.raised = c.raised, !.leak = c.leak,
                       !.ok = FALSE]

\* missing: the credentials that are None; o: how connect() ends.
create_connection(missing, o) ==
    IF missing # {} THEN [connection |-> FALSE, out |-> <<>>, attempted |-> FALSE]
    ELSE IF o # "ok"
         THEN [connection |-> FALSE, attempted |-> TRUE,
               out |-> <<Msg("failed", "create connection", 0, 0)>>]
         ELSE [connection |-> TRUE, attempted |-> TRUE,
               out |-> <<Msg("connected", "", 0, 0)>>]

----------------------------------------------------------------------------
(* The runs *)

\* A fresh database, and no run yet.
Init ==
    /\ tables = {}
    /\ students = {}
    /\ scores = EmptyBag
    /\ seq = 1
    /\ pc = "exit"
    /\ prog = "none"
    /\ conn = "none"
    /\ closes = 0
    /\ issued = FALSE
    /\ usedClosed = FALSE
    /\ cursors = 0
    /\ call = Call("none", 0, 0, TRUE)
    /\ out = <<>>
    /\ ret = None

\* What an operation does to the database and to the run's bookkeeping.
Apply(r, c) ==
    /\ tables' = r.tables
    /\ students' = r.students
    /\ scores' = r.scores
    /\ seq' = r.seq
    /\ ret' = r.ret
    /\ cursors' = cursors + r.leak
    /\ issued' = TRUE
    /\ usedClosed' = (usedClosed \/ conn # "open")
    /\ call' = c

\* The except clause of main() without its return.
Try_NoReturn(r, next) ==
    /\ conn' = IF r.raised THEN "closed" ELSE conn
    /\ closes' = IF r.raised THEN closes + 1 ELSE closes
    /\ out' = IF r.raised THEN r.out \o <<Msg("critical", "", 0, 0)>> ELSE r.out
    /\ pc' = next

\* A call inside the try of main(): an exception closes the connection,
\* prints "Critical error occurred!" and returns.
Try(r, next) ==
    IF r.raised
    THEN /\ conn' = "closed"
         /\ closes' = closes + 1
         /\ out' = r.out \o <<Msg("critical", "", 0, 0)>>
         /\ pc' = "exit"
    ELSE /\ out' = r.out
         /\ pc' = next
         /\ UNCHANGED <<conn, closes>>

\* A call after the try of main(): an exception leaves main() at once.
Steady(r, next) ==
    /\ out' = r.out
    /\ pc' = IF r.raised THEN "exit" ELSE next
    /\ UNCHANGED <<conn, closes>>

\* A new process: nothing of the previous run is left but the database.
StartRun(p, c) ==
    /\ prog' = p
    /\ issued' = FALSE
    /\ usedClosed' = FALSE
    /\ cursors' = 0
    /\ ret' = None
    /\ call' = Call("create_connection", 0, 0, c.connection)

MainStart ==
    /\ pc = "exit"
    /\ BagCardinality(scores) + Cardinality(students) <= MaxScoreRows
    /\ \E missing \in MissingSets, o \in {"ok", "error"} :
         LET c == create_connection(missing, o)
         IN /\ StartRun("main", c)
            /\ conn' = IF c.connection THEN "open" ELSE "none"
            /\ closes' = 0
            /\ out' = c.out
            /\ pc' = IF c.connection THEN "create_students_table" ELSE "exit"
    /\ UNCHANGED <<tables, students, scores, seq>>

MainCreateStudentsTable ==
    /\ pc = "create_students_table"
    /\ \E o \in ScopedOutcomes({}) :
         LET r == create_students_table(o)
         IN Apply(r, Call("create_students_table", 0, 0, r.ok))
            /\ Try(r, "create_scores_table")
    /\ UNCHANGED prog

\* scores references students: it cannot be created before students exists.
MainCreateScoresTable ==
    /\ pc = "create_scores_table"
    /\ \E o \in ScopedOutcomes({"students"}) :
         LET r == create_scores_table(o)
         IN Apply(r, Call("create_scores_table", 0, 0, r.ok))
            /\ Try(r, "insert_students")
    /\ UNCHANGED prog

MainInsertStudents ==
    /\ pc = "insert_students"
    /\ \E students_number \in 0..MaxN :
         /\ seq + students_number - 1 <= MaxId
         /\ BagCardinality(scores) + Cardinality(students) + students_number
                <= MaxScoreRows
         /\ \E rows \in [1..students_number -> Names \X BirthDates \X Groups],
               os \in [1..students_number -> ScopedOutcomes({"students"})] :
              LET r == insert_students(rows, os)
              IN /\ Apply(r, Call("insert_students", students_number, 0, r.ok))
                 /\ Try(r, "insert_scores")
    /\ UNCHANGED prog

MainInsertScores ==
    /\ pc = "insert_scores"
    /\ \/ \E o \in Outcomes({"students"}) \ {"ok"} :
            LET r == insert_scores(o, <<>>, <<>>, <<>>)
            IN Apply(r, Call("insert_scores", 0, 0, r.ok)) /\ Try(r, "update_group")
       \/ /\ "students" \in tables
          /\ \E ids \in Perms({s.id : s \in students}) :
               \E values \in [DOMAIN ids -> ScoreValues],
                  os \in [DOMAIN ids -> ScopedOutcomes({"scores"})] :
                 LET r == insert_scores("ok", ids, values, os)
                 IN Apply(r, Call("insert_scores", Len(ids), 0, r.ok))
                    /\ Try(r, "update_group")
    /\ UNCHANGED prog

MainUpdateGroup ==
    /\ pc = "update_group"
    /\ \E student_id \in StudentIds, new_group \in Groups, o \in Outcomes({"students"}) :
         LET r == update_group(student_id, new_group, o)
         IN Apply(r, Call("update_group", student_id, new_group, r.ok))
            /\ Steady(r, "delete_group")
    /\ UNCHANGED prog

MainDeleteGroup ==
    /\ pc = "delete_group"
    /\ \E group \in Groups, o \in Outcomes({"students"}) :
         LET r == delete_group(group, o)
         IN Apply(r, Call("delete_group", group, 0, r.ok))
            /\ Steady(r, "fetch_group")
    /\ UNCHANGED prog

MainFetchGroup ==
    /\ pc = "fetch_group"
    /\ \E group \in Groups, o \in Outcomes({"students"}) :
         \E result \in Limit(FetchGroupRows(group)) :
           LET r == fetch_group(group, o, result)
           IN Apply(r, Call("fetch_group", group, 0, r.ok))
              /\ Steady(r, "calculate_group_average_score")
    /\ UNCHANGED prog

MainCalculateGroupAverageScore ==
    /\ pc = "calculate_group_average_score"
    /\ \E group \in Groups, o \in Outcomes({"students", "scores"}) :
         LET r == calculate_group_average_score(group, o)
         IN Apply(r, Call("calculate_group_average_score", group, 0, r.ok))
            /\ Steady(r, "fetch_sorted_data")
    /\ UNCHANGED prog

MainFetchSortedData ==
    /\ pc = "fetch_sorted_data"
    /\ \E a \in SortArgs :
         \E o \in IF a[2] \in Columns(a[1]) THEN Outcomes({a[1]})
                   ELSE {"execute_error"} :
           LET r == fetch_sorted_data(a[1], a[2], o)
           IN Apply(r, Call("fetch_sorted_data", 0, 0, r.ok))
              /\ Steady(r, "search_student_by_name")
    /\ UNCHANGED prog

MainSearchStudentByName ==
    /\ pc = "search_student_by_name"
    /\ \E partial_name \in Partials, o \in Outcomes({"students"}) :
         LET r == search_student_by_name(partial_name, o)
         IN Apply(r, Call("search_student_by_name", 0, 0, r.ok))
            /\ Steady(r, "update_score")
    /\ UNCHANGED prog

MainUpdateScore ==
    /\ pc = "update_score"
    /\ \E student_id \in StudentIds, new_score \in ScoreValues,
          o \in Outcomes({"scores"}) :
         LET r == update_score(student_id, new_score, o)
         IN Apply(r, Call("update_score", student_id, new_score, r.ok))
            /\ Steady(r, "close")
    /\ UNCHANGED prog

\* main() ending without connection.close().
MainClose_NoClose ==
    /\ pc = "close"
    /\ pc' = "exit"
    /\ call' = Call("close", 0, 0, TRUE)
    /\ out' = <<>>
    /\ ret' = None
    /\ UNCHANGED <<tables, students, scores, seq, issued, usedClosed, cursors,
                   prog, conn, closes>>

\* connection.close(), the last statement of main()
MainClose ==
    /\ pc = "close"
    /\ conn' = "closed"
    /\ closes' = closes + 1
    /\ pc' = "exit"
    /\ call' = Call("close", 0, 0, TRUE)
    /\ out' = <<>>
    /\ ret' = None
    /\ UNCHANGED <<tables, students, scores, seq, issued, usedClosed, cursors,
                   prog>>

\* clear_tables(), from its first line to its return
clear_tables ==
    /\ pc = "exit"
    /\ \E missing \in MissingSets, oc \in {"ok", "error"},
          o \in ScopedOutcomes({"students"}) :
         LET c == create_connection(missing, oc)
             q == execute_query(o, "clear tables", FALSE, TRUE)
             t == IF o = "ok" THEN Truncate
                  ELSE [tables |-> tables, students |-> students,
                        scores |-> scores, seq |-> seq]
         IN /\ prog' = "clear_tables"
                    /\ ret' = None
            /\ pc' = "exit"
            /\ IF c.connection
               THEN /\ tables' = t.tables
                    /\ students' = t.students
                    /\ scores' = t.scores
                    /\ seq' = t.seq
                    /\ issued' = TRUE
                    /\ usedClosed' = FALSE
                    /\ cursors' = q.leak
                    /\ conn' = "closed"
                    /\ closes' = 1
                    /\ out' = c.out \o q.out
                    /\ call' = Call("clear_tables", 0, 0, o = "ok")
               ELSE /\ UNCHANGED <<tables, students, scores, seq>>
                    /\ issued' = FALSE
                    /\ usedClosed' = FALSE
                    /\ cursors' = 0
                    /\ conn' = "none"
                    /\ closes' = 0
                    /\ out' = c.out
                    /\ call' = Call("create_connection", 0, 0, FALSE)

Next ==
    \/ MainStart
    \/ MainCreateStudentsTable
    \/ MainCreateScoresTable
    \/ MainInsertStudents
    \/ MainInsertScores
    \/ MainUpdateGroup
    \/ MainDeleteGroup
    \/ MainFetchGroup
    \/ MainCalculateGroupAverageScore
    \/ MainFetchSortedData
    \/ MainSearchStudentByName
    \/ MainUpdateScore
    \/ MainClose
    \/ clear_tables

Spec == Init /\ [][Next]_vars

----------------------------------------------------------------------------
(* Properties *)

In(m, printed) == \E i \in DOMAIN printed : printed[i] = m
Kind(k, printed) == \E i \in DOMAIN printed : printed[i].kind = k
Failed(name, printed) == In(Msg("failed", name, 0, 0), printed)
Exists(student_id) == \E s \in students : s.id = student_id
Rows(b) == BagToSet(b)

\* C1: every row of scores references a row that exists in students, in
\* every state the operations can reach, a delete of students included.
C1_ScoresReferenceStudents ==
    \A e \in Rows(scores) : \E s \in students : s.id = e.student_id

\* A delete_group removed students and score rows of other students remain.
C1_Witness ==
    /\ call.op = "delete_group"
    /\ call.ok
    /\ Kind("deleted", out)
    /\ scores # EmptyBag
    /\ C1_ScoresReferenceStudents

\* The step of main() that populates scores, all of its statements succeeding.
PopulationStep ==
    /\ pc = "insert_scores"
    /\ call.op = "insert_students"
    /\ call'.op = "insert_scores"
    /\ call'.ok

\* scores holds n rows, of n different students.
OnePerStudent(sc, n) ==
    /\ BagCardinality(sc) = n
    /\ \A e \in Rows(sc) : CopiesIn(e, sc) = 1
    /\ \A e1, e2 \in Rows(sc) : e1.student_id = e2.student_id => e1 = e2

\* C2 as stated: after insert_students(N) and insert_scores, whatever the
\* tables held before, scores has exactly N rows, one per student.
C2_Original == [][PopulationStep => OnePerStudent(scores', call.a)]_vars

\* C2, amended: after insert_students(N) and insert_scores on tables that
\* were empty when population started, the SELECT and every INSERT
\* succeeding, scores has exactly N rows, one per student, each of an
\* existing student.
C2_PopulationFromEmpty ==
    [][(PopulationStep /\ scores = EmptyBag /\ Cardinality(students) = call.a)
        => /\ OnePerStudent(scores', call.a)
           /\ {e.student_id : e \in Rows(scores')} = {s.id : s \in students}]_vars

\* A population of two students from empty tables has completed.
C2_Witness ==
    /\ call.op = "insert_scores"
    /\ call.ok
    /\ call.a = 2
    /\ pc = "update_group"
    /\ {s.id : s \in students} = {1, 2}
    /\ OnePerStudent(scores, 2)

DeleteStep == pc = "delete_group" /\ call'.op = "delete_group" /\ call'.ok

\* C3: a successful delete_group(g) removes exactly the students of group g
\* and exactly their score rows, leaves every other row as it was, and
\* prints the number of students removed; with no student in g it prints
\* "No student from group g found" and changes neither table.
C3_DeleteGroupExact ==
    [][DeleteStep =>
        LET g == call'.a
            gone == {s \in students : s.group = g}
            goneIds == {s.id : s \in gone}
        IN /\ students' = students \ gone
           /\ \A e \in Rows(scores) \cup Rows(scores') :
                 CopiesIn(e, scores') =
                    IF e.student_id \in goneIds THEN 0 ELSE CopiesIn(e, scores)
           /\ gone # {} => In(Msg("deleted", "", Cardinality(gone), g), out')
           /\ gone = {} => /\ In(Msg("no student from group", "", g, 0), out')
                           /\ students' = students
                           /\ scores' = scores
           /\ tables' = tables /\ seq' = seq]_vars

\* A delete_group removed one student of two, and score rows remain.
C3_Witness ==
    /\ call.op = "delete_group"
    /\ call.ok
    /\ In(Msg("deleted", "", 1, call.a), out)
    /\ Cardinality(students) = 1
    /\ scores # EmptyBag

UpdateStep ==
    /\ call'.ok
    /\ \/ pc = "update_group" /\ call'.op = "update_group"
       \/ pc = "update_score" /\ call'.op = "update_score"

\* C4: update_group and update_score for an id of no existing student print
\* "No student with id ... found" and leave both tables unchanged, and the
\* message is printed only when no student with that id exists.
C4_NoStudentMessage ==
    [][UpdateStep =>
        LET id == call'.a
            said == In(Msg("no student with id", "", id, 0), out')
        IN /\ ~Exists(id) => said /\ students' = students /\ scores' = scores
           /\ said => ~Exists(id)]_vars

\* An INSERT of the population failed in the operation that ran last.
InsertFailed ==
    \/ call.op = "insert_students" /\ Failed("insert students", out)
    \/ call.op = "insert_scores" /\ Failed("insert scores", out)

Critical == Msg("critical", "", 0, 0)

SetupFailed ==
    \/ call.op \in {"create_students_table", "create_scores_table"} /\ ~call.ok
    \/ InsertFailed

SteadyOps ==
    {"update_group", "delete_group", "fetch_group", "calculate_group_average_score",
     "fetch_sorted_data", "search_student_by_name", "update_score"}

\* C6: when a CREATE TABLE or an INSERT of the setup phase fails, the
\* connection is closed, "Critical error occurred!" is printed and the run is
\* over: what runs next is the start of another run, none of the seven
\* operations that follow the setup.
C6_SetupFailureAborts ==
    [][/\ SetupFailed' => /\ conn' = "closed" /\ closes' = 1
                          /\ In(Critical, out')
                          /\ pc' = "exit"
       /\ SetupFailed => /\ call'.op \in {"create_connection", "clear_tables"}
                         /\ call'.op \notin SteadyOps]_vars

\* CREATE TABLE scores failed and the run was aborted.
C6_Witness ==
    /\ call.op = "create_scores_table"
    /\ ~call.ok
    /\ tables = {"students"}
    /\ conn = "closed"
    /\ In(Critical, out)

\* The operation main() runs after each steady-state operation.
NextOf(p) ==
    CASE p = "update_group" -> "delete_group"
      [] p = "delete_group" -> "fetch_group"
      [] p = "fetch_group" -> "calculate_group_average_score"
      [] p = "calculate_group_average_score" -> "fetch_sorted_data"
      [] p = "fetch_sorted_data" -> "search_student_by_name"
      [] p = "search_student_by_name" -> "update_score"
      [] p = "update_score" -> "close"

\* C7: a steady-state operation whose statement fails prints a diagnostic,
\* returns None, leaves both tables unchanged and the connection open, and
\* main() goes on to the next operation; neither executor re-raises unless
\* raise_exc is set.
C7_SteadyFailureDegrades ==
    [][(pc \in SteadyOps /\ call'.op = pc /\ ~call'.ok) =>
        /\ Kind("failed", out') /\ Len(out') = 1
        /\ ret' = None
        /\ students' = students /\ scores' = scores
        /\ tables' = tables /\ seq' = seq
        /\ conn' = "open" /\ conn = "open"
        /\ pc' = NextOf(pc)
        /\ \A o \in {"ok", "cursor_error", "execute_error"}, ps \in BOOLEAN :
             /\ ~execute_query(o, "q", FALSE, ps).raised
             /\ ~execute_query_return_cursor(o, "q", FALSE, ps).raised
             /\ execute_query(o, "q", TRUE, ps).raised <=> o # "ok"
             /\ execute_query_return_cursor(o, "q", TRUE, ps).raised <=> o # "ok"]_vars

\* fetch_group failed, returned None, and main() is at the next operation.
C7_Witness ==
    /\ call.op = "fetch_group"
    /\ ~call.ok
    /\ ret = None
    /\ students # {}
    /\ pc = "calculate_group_average_score"

\* Some student of the group has a score row.
GroupHasScore(group) ==
    \E s \in students : s.group = group /\ ScoreRowsOf(s.id) # {}

\* C8: a calculate_group_average_score(g) whose statement succeeds prints the
\* average exactly when a student of group g has a score row, and "No group
\* number g in the DB." otherwise, as for a group with no student.
C8_AverageOrNotFound ==
    (call.op = "calculate_group_average_score" /\ call.ok) =>
        LET g == call.a
        IN /\ Kind("average", out) <=> GroupHasScore(g)
           /\ In(Msg("no group", "", g, 0), out) <=> ~GroupHasScore(g)
           /\ (\A s \in students : s.group # g) => ~Kind("average", out)
           /\ \A i \in DOMAIN out :
                 out[i].kind = "average" => out[i].a = g /\ out[i].b \in 0..10000

\* The average of a group that has a score row was printed.
C8_Witness ==
    /\ call.op = "calculate_group_average_score"
    /\ call.ok
    /\ GroupHasScore(call.a)
    /\ Kind("average", out)

\* C9: after any sequence of operations no cursor remains open: every cursor
\* an operation opened is closed when the operation returns or raises.
C9_NoCursorLeftOpen == cursors = 0

\* A run is over: main() or clear_tables() returned.
RunOver == pc = "exit" /\ prog # "none"

\* C10: a run whose create_connection returned None sends no statement; any
\* other run closes its connection exactly once before it ends, on the abort
\* path and on the normal path, and sends no statement on a connection that
\* is not open.
C10_ConnectionLifecycle ==
    /\ conn = "none" => ~issued
    /\ (RunOver /\ conn # "none") => conn = "closed" /\ closes = 1
    /\ pc # "exit" => closes = 0 /\ conn = "open"
    /\ ~usedClosed
    /\ closes <= 1

\* main() ran to its end with failed steady-state operations behind it.
C10_Witness ==
    /\ RunOver
    /\ prog = "main"
    /\ call.op = "close"
    /\ cursors > 0
    /\ conn = "closed"
    /\ closes = 1

====
